---- MODULE Spec2Model ----
(***************************************************************************)
(* Model of benchmark_models.py: main(), ModelBenchmark.__init__,          *)
(* _find_models, benchmark_model and run_all_benchmarks, together with the *)
(* process-wide tracemalloc state the harness starts and stops.            *)
(* One step of the machine is one statement group of the script; pc is the *)
(* position of the single Python thread.                                   *)
(***************************************************************************)
EXTENDS Integers, Sequences, FiniteSets, TLC

\* ---- bounds of the explored inputs ----
MaxEntries == 2     \* directory entries returned by os.listdir
MaxWarmup == 1      \* largest --warmup explored
MaxIter == 2        \* largest --iterations explored
MaxMem == 2         \* largest traced allocation level (abstract units)
MaxTime == 2        \* largest single-call duration (abstract units)
MaxDim == 1         \* largest dimension of a declared input shape
MaxRank == 4        \* largest rank of a declared input shape
MantBits == 3       \* significand bits of the floating-point format (binary64 has 53)
StatMaxLen == 3     \* longest timing sequence given to the statistics alone
StatMaxTime == 7    \* largest timing given to the statistics alone

\* ---- program constants ----
BytesPerMB == 1024 * 1024

VARIABLES
    dirKind,          \* what args.model_dir names: "missing", "file" or "dir"
    entries,          \* the entries of model_dir in os.listdir order
    iterations,       \* args.iterations
    warmup,           \* args.warmup
    pc,               \* position of the interpreter
    models,           \* self.models
    idx,              \* position of the for loop over self.models (1-based)
    results,          \* results list of run_all_benchmarks
    input_shape,      \* input_shape of the current benchmark_model
    test_input,       \* test_input of the current benchmark_model (shape and dtype)
    w,                \* warm-up invocations done in the current benchmark_model
    inference_times,  \* inference_times of the current benchmark_model
    start_memory,     \* start_memory of the current benchmark_model
    peak_memory,      \* peak_memory (bytes) of the current benchmark_model
    interpreter,      \* identity of the interpreter object of the current benchmark_model
    tracing,          \* tracemalloc.is_tracing()
    cur,              \* tracemalloc.get_traced_memory()[0]
    peak,             \* tracemalloc.get_traced_memory()[1]
    printed,          \* kinds of messages written to stdout so far
    tableRows,        \* model names printed as rows of the summary table
    tableMem,         \* "Memory (MB)" column printed in the rows of the summary table
    errorsPrinted,    \* "Error benchmarking <name>: <cause>" lines printed so far
    status,           \* history: outcome of each model of self.models
    timesOf,          \* history: inference_times of each completed benchmark_model
    calls,            \* history: invocations of each model, in order
    loads,            \* history: interpreters created for each model
    started,          \* history: models whose benchmark_model called tracemalloc.start()
    enteredActive,    \* history: models whose window opened with the tracker already tracing
    windowMax,        \* history: highest traced level seen since the current window opened
    events,           \* history: interpreter creations and invocations of the run, in order
    script,           \* pipeline script whose main() is running ("none" for the benchmark)
    ppc,              \* position of the pipeline script's main()
    stepIdx,          \* index in steps of the step_fn the for loop of main() is at
    stepLog,          \* history: step functions called so far, with what each returned
    ret,              \* return value of the pipeline script's main()
    existing,         \* paths the pipeline steps test with os.path.exists that exist
    failing,          \* shell commands that end with a nonzero return code
    buildWritable,    \* directories can be created under the build / output directory
    appWritable,      \* directories can be created under the Android app directory
    pipePrinted       \* kinds of messages main() of the pipeline script has printed

vars == <<dirKind, entries, iterations, warmup, pc, models, idx, results,
          input_shape, test_input, w,
          inference_times, start_memory, peak_memory, interpreter, tracing, cur, peak,
          printed, tableRows, tableMem, errorsPrinted, status, timesOf, calls, loads,
          started, enteredActive, windowMax, events,
          script, ppc, stepIdx, stepLog, ret, existing, failing,
          buildWritable, appWritable, pipePrinted>>

pipeVars == <<script, ppc, stepIdx, stepLog, ret, existing, failing,
              buildWritable, appWritable, pipePrinted>>
pipeEnv == <<failing, buildWritable, appWritable>>
benchVars == <<dirKind, entries, iterations, warmup, pc, models, idx, results,
               input_shape, test_input, w, inference_times, start_memory,
               peak_memory, interpreter, tracing, cur, peak, printed, tableRows,
               tableMem, errorsPrinted, status, timesOf, calls, loads, started,
               enteredActive, windowMax, events>>
fsVars == <<dirKind, entries>>
argVars == <<iterations, warmup>>
tracerVars == <<tracing, cur, peak>>
shapeVars == <<input_shape, test_input>>
localVars == <<input_shape, test_input, w, inference_times, start_memory,
               peak_memory, interpreter>>
outVars == <<printed, tableRows, tableMem, errorsPrinted>>
histVars == <<status, timesOf, calls, loads, started, enteredActive, windowMax,
              events>>

\* ---- helpers ----
Max(a, b) == IF a >= b THEN a ELSE b

SeqMin(s) == CHOOSE x \in {s[k] : k \in 1..Len(s)} : \A k \in 1..Len(s) : x <= s[k]
SeqMax(s) == CHOOSE x \in {s[k] : k \in 1..Len(s)} : \A k \in 1..Len(s) : x >= s[k]

\* ---- floating-point arithmetic ----
\* A float is the fraction [num, den] it stands for; every operation of numpy
\* returns the exact result rounded to MantBits significant bits, ties to even.
RECURSIVE Pow2(_)
Pow2(n) == IF n = 0 THEN 1 ELSE 2 * Pow2(n - 1)

Abs(x) == IF x < 0 THEN -x ELSE x

RatEq(a, b) == a.num * b.den = b.num * a.den
RatLe(a, b) == a.num * b.den <= b.num * a.den
RatOf(n) == [num |-> n, den |-> 1]

RECURSIVE Norm(_)
Norm(q) ==
    IF q.den > 1 /\ q.num % 2 = 0
    THEN Norm([num |-> q.num \div 2, den |-> q.den \div 2])
    ELSE q

\* 2^k <= a / b, for a, b > 0
GePow2(a, b, k) == IF k >= 0 THEN Pow2(k) * b <= a ELSE b <= a * Pow2(-k)
ExpRange == (-4 * MantBits)..(2 * MantBits)
Exponent(a, b) == CHOOSE k \in ExpRange : GePow2(a, b, k) /\ ~GePow2(a, b, k + 1)

\* n / d (n >= 0, d > 0) rounded to the nearest integer, ties to even
RoundHalfEven(n, d) ==
    LET fl == n \div d
        rem == n % d
    IN  IF 2 * rem > d THEN fl + 1
        ELSE IF 2 * rem < d THEN fl
        ELSE IF fl % 2 = 0 THEN fl ELSE fl + 1

\* the float nearest to the fraction q
RoundFloat(q) ==
    IF q.num = 0 THEN RatOf(0)
    ELSE LET a == Abs(q.num)
             sgn == IF q.num < 0 THEN -1 ELSE 1
             u == Exponent(a, q.den) - MantBits + 1
         IN  IF u >= 0
             THEN RatOf(sgn * RoundHalfEven(a, q.den * Pow2(u)) * Pow2(u))
             ELSE Norm([num |-> sgn * RoundHalfEven(a * Pow2(-u), q.den),
                        den |-> Pow2(-u)])

FAdd(x, y) == RoundFloat([num |-> x.num * y.den + y.num * x.den, den |-> x.den * y.den])
FSub(x, y) == RoundFloat([num |-> x.num * y.den - y.num * x.den, den |-> x.den * y.den])
FMul(x, y) == RoundFloat([num |-> x.num * y.num, den |-> x.den * y.den])
FDivInt(x, n) == RoundFloat([num |-> x.num, den |-> x.den * n])

\* np.add.reduce over fewer than 8 floats: left to right from the first
RECURSIVE FSumFrom(_, _)
FSumFrom(acc, s) == IF s = <<>> THEN acc ELSE FSumFrom(FAdd(acc, Head(s)), Tail(s))
FSum(s) == FSumFrom(Head(s), Tail(s))

\* variant: the sum is not divided by the count
FMean_sum(s) == FSum(s)

\* np.mean: the sum divided by the count
FMean(s) == FDivInt(FSum(s), Len(s))

\* np.var as computed inside np.std: the mean of the squared deviations
\* from the mean; np.std is its square root, which is 0 exactly when it is 0
FVar(s) ==
    LET mu == FMean(s)
        sq == [k \in 1..Len(s) |-> LET dv == FSub(s[k], mu) IN FMul(dv, dv)]
    IN  FMean(sq)

\* the timings (measured in whole units) as floats
AsFloats(times) == [k \in 1..Len(times) |-> RatOf(times[k])]

\* durations of the completed invocations of one kind, in invocation order
RECURSIVE Durations(_, _)
Durations(s, kind) ==
    IF s = <<>> THEN <<>>
    ELSE IF Head(s).kind = kind /\ Head(s).ok
         THEN <<Head(s).dur>> \o Durations(Tail(s), kind)
         ELSE Durations(Tail(s), kind)

\* ---- the file system and the command line ----
DirKinds == {"missing", "file", "dir"}
Exts == {"tflite", "txt"}

EntryKinds == {"file", "dir"}

\* A name is its stem and its extension; names of one directory differ.
\* A directory entry is a name and what it names: a regular file or a
\* subdirectory.
FileName(k, e) == [stem |-> k, ext |-> e]
Listings ==
    UNION {[1..n -> Exts \X EntryKinds] : n \in 0..MaxEntries}
ListingOf(f) == [k \in 1..Len(f) |-> [stem |-> k, ext |-> f[k][1], kind |-> f[k][2]]]

\* os.listdir(self.model_dir): the names of the entries
ListDir(es) == [k \in 1..Len(es) |-> FileName(es[k].stem, es[k].ext)]

\* names bound at module level of benchmark_models.py (imports, class, def)
ModuleGlobals ==
    {"os", "time", "argparse", "np", "tf", "Image", "tracemalloc",
     "ModelBenchmark", "main"}

\* variant: the existence check always passes
PathExists_always(k) == TRUE

\* os.path.exists(args.model_dir)
PathExists(k) == k # "missing"

\* variant: the extension filter accepts every entry
EndsWithTflite_any(f) == TRUE

\* file.endswith(".tflite")
EndsWithTflite(f) == f.ext = "tflite"

\* os.path.join(self.model_dir, file) and os.path.basename(model_path)
PathJoin(d, f) == [dir |-> d, file |-> f]
Basename(p) == p.file

\* lines 29-33: the matching names, joined to the directory, in order
RECURSIVE MatchingPaths(_)
MatchingPaths(names) ==
    IF names = <<>> THEN <<>>
    ELSE IF EndsWithTflite(Head(names))
         THEN <<PathJoin("model_dir", Head(names))>> \o MatchingPaths(Tail(names))
         ELSE MatchingPaths(Tail(names))

\* _find_models: the matching entries, in os.listdir order
FindModels(es) == MatchingPaths(ListDir(es))

\* whether model_path names a regular file
IsFile(es, path) ==
    \E k \in 1..Len(es) :
      FileName(es[k].stem, es[k].ext) = Basename(path) /\ es[k].kind = "file"

\* ---- tracemalloc ----
\* tracemalloc.get_traced_memory(): (0, 0) when the module is not tracing
GetTracedMemory == IF tracing THEN <<cur, peak>> ELSE <<0, 0>>

\* the process allocates or frees: the traced level moves to m
Alloc(m) ==
    IF tracing
    THEN /\ cur' = m
         /\ peak' = Max(peak, m)
         /\ tracing' = tracing
    ELSE UNCHANGED tracerVars

\* ---- declared input shapes and the synthetic input ----
\* shapes an interpreter may report: image-like (rank 4) or sequence-like
\* (rank 2), the leading dimension ranging over negative, zero and positive
DeclaredShapes ==
    {<<b, 1, 1, 1>> : b \in -1..MaxDim} \cup {<<b, 1>> : b \in -1..MaxDim}

\* every shape of rank 1..MaxRank over the dimensions -1..MaxDim
AllShapes == UNION {[1..r -> -1..MaxDim] : r \in 1..MaxRank}

\* test_input before line 65 / 68 has run
NoInput == [shape |-> <<>>, dtype |-> "none"]

\* np.random.random(size) raises ValueError on a negative dimension and
\* otherwise returns an array with one axis per entry of size (an axis of
\* length 0 gives an empty array, not an error)
RandomRaises(size) == \E k \in 1..Len(size) : size[k] < 0
RandomShape(size) == [k \in 1..Len(size) |-> size[k]]

\* variant: the image branch rebuilds the shape from height and width
SynthShape_image(shape) ==
    IF Len(shape) = 4 THEN <<1, shape[2], shape[3], 3>> ELSE RandomShape(shape)

\* lines 63-69: both branches pass input_shape itself to np.random.random
SynthShape(shape) ==
    IF Len(shape) = 4 THEN RandomShape(shape) ELSE RandomShape(shape)

\* lines 66 and 69: input_type_str
InputTypeStr(shape) == IF Len(shape) = 4 THEN "Image" ELSE "Text/Other"

\* the name interpreter is bound to no object
NoInterpreter == 0

\* one use of an interpreter object by the benchmark of self.models[model]
Event(model, op, interp) == [model |-> model, op |-> op, interp |-> interp]

\* interpreter objects constructed so far
Created(es) == {i \in 1..Len(es) : es[i].op = "create"}

\* variant: one interpreter object is kept and handed out again
NewInterpreter_shared(es) == 1

\* line 52: tf.lite.Interpreter(...) constructs a new object on every call
NewInterpreter(es) == Cardinality(Created(es)) + 1

\* main() has not returned
NoReturn == -1

\* no pipeline script is running
PipeIdle ==
    /\ script = "none"
    /\ ppc = "idle"
    /\ stepIdx = 0
    /\ stepLog = <<>>
    /\ ret = NoReturn
    /\ existing = {}
    /\ failing = {}
    /\ buildWritable = TRUE
    /\ appWritable = TRUE
    /\ pipePrinted = {}

Init ==
    /\ dirKind \in DirKinds
    /\ entries \in IF dirKind = "dir" THEN {ListingOf(f) : f \in Listings} ELSE {<<>>}
    /\ iterations \in 0..MaxIter
    /\ warmup \in 0..MaxWarmup
    /\ pc = "main"
    /\ models = <<>>
    /\ idx = 0
    /\ results = <<>>
    /\ input_shape = <<>>
    /\ test_input = NoInput
    /\ w = 0
    /\ inference_times = <<>>
    /\ start_memory = 0
    /\ peak_memory = 0
    /\ tracing \in BOOLEAN
    /\ cur \in IF tracing THEN 0..MaxMem ELSE {0}
    /\ peak \in IF tracing THEN cur..MaxMem ELSE {0}
    /\ printed = {}
    /\ tableRows = <<>>
    /\ tableMem = <<>>
    /\ errorsPrinted = {}
    /\ status = <<>>
    /\ timesOf = <<>>
    /\ calls = <<>>
    /\ loads = <<>>
    /\ started = {}
    /\ enteredActive = {}
    /\ windowMax = 0
    /\ interpreter = NoInterpreter
    /\ events = <<>>
    /\ PipeIdle

\* ---- main() ----
\* lines 175-178: the directory check of main
MainCheckDir ==
    /\ pc = "main"
    /\ IF ~PathExists(dirKind)
       THEN /\ printed' = printed \cup {"dir_not_found"}
            /\ pc' = "exit"
       ELSE /\ printed' = printed
            /\ pc' = "ctor"
    /\ UNCHANGED <<pipeVars, fsVars, argVars, models, idx, results, localVars, tracerVars,
                   tableRows, tableMem, errorsPrinted, histVars>>

\* line 181, lines 21-33: ModelBenchmark(...) lists the directory; os.listdir
\* raises when model_dir is not a directory, and main has no handler
Construct ==
    /\ pc = "ctor"
    /\ IF dirKind = "dir"
       THEN /\ models' = FindModels(entries)
            /\ status' = [k \in 1..Len(models') |-> "pending"]
            /\ timesOf' = [k \in 1..Len(models') |-> <<>>]
            /\ calls' = [k \in 1..Len(models') |-> <<>>]
            /\ loads' = [k \in 1..Len(models') |-> 0]
            /\ pc' = "run"
       ELSE /\ pc' = "ctor_raised"
            /\ UNCHANGED <<models, status, timesOf, calls, loads>>
    /\ UNCHANGED <<pipeVars, fsVars, argVars, idx, results, localVars, tracerVars, outVars,
                   started, enteredActive, windowMax, events>>

\* ---- run_all_benchmarks ----
\* lines 134-140
RunStart ==
    /\ pc = "run"
    /\ results' = <<>>
    /\ IF models = <<>>
       THEN /\ printed' = printed \cup {"no_models"}
            /\ pc' = "returned"
            /\ idx' = idx
       ELSE /\ printed' = printed \cup {"found"}
            /\ pc' = "for"
            /\ idx' = 1
    /\ UNCHANGED <<pipeVars, fsVars, argVars, models, localVars, tracerVars, tableRows,
                   tableMem, errorsPrinted, histVars>>

\* line 142: the for statement takes the next model_path or leaves the loop;
\* line 144 enters benchmark_model with fresh locals
ForModel ==
    /\ pc = "for"
    /\ IF idx <= Len(models)
       THEN /\ pc' = "load"
            /\ input_shape' = <<>>
            /\ test_input' = NoInput
            /\ w' = 0
            /\ inference_times' = <<>>
            /\ start_memory' = 0
            /\ peak_memory' = 0
            /\ interpreter' = NoInterpreter
       ELSE /\ pc' = "summary"
            /\ UNCHANGED localVars
    /\ UNCHANGED <<pipeVars, fsVars, argVars, models, idx, results, tracerVars, outVars,
                   histVars>>

\* ---- benchmark_model ----
\* lines 49-61: create the interpreter (which raises when model_path is not a
\* readable model file), allocate tensors, read the declared input shape
Load ==
    /\ pc = "load"
    /\ loads' = [loads EXCEPT ![idx] = @ + 1]
    /\ \E ok \in IF IsFile(entries, models[idx]) THEN BOOLEAN ELSE {FALSE} :
         IF ok
         THEN /\ pc' = "synth"
              /\ status' = status
              /\ interpreter' = NewInterpreter(events)
              /\ events' = Append(events, Event(idx, "create", interpreter'))
              /\ \E shape \in DeclaredShapes : input_shape' = shape
         ELSE /\ pc' = "except"
              /\ status' = [status EXCEPT ![idx] = "load_error"]
              /\ interpreter' = NoInterpreter
              /\ events' = events
              /\ input_shape' = input_shape
    /\ \E m \in 0..MaxMem : Alloc(m)
    /\ UNCHANGED <<pipeVars, fsVars, argVars, models, idx, results, test_input, w,
                   inference_times, start_memory, peak_memory, outVars,
                   timesOf, calls, started, enteredActive, windowMax>>

\* variant: the memory window is opened right after the input is built
AfterSynth_window == "start"

\* lines 75-77: the warm-up loop is the statement that follows the synthesis
AfterSynth == "warmup"

\* lines 63-73: build the synthetic input from input_shape
Synth ==
    /\ pc = "synth"
    /\ IF RandomRaises(input_shape)
       THEN /\ pc' = "except"
            /\ status' = [status EXCEPT ![idx] = "shape_error"]
            /\ test_input' = test_input
       ELSE /\ pc' = AfterSynth
            /\ status' = status
            /\ test_input' = [shape |-> SynthShape(input_shape), dtype |-> "float32"]
    /\ UNCHANGED <<pipeVars, fsVars, argVars, models, idx, results, input_shape, w,
                   inference_times, start_memory, peak_memory, tracerVars,
                   outVars, timesOf, calls, loads, started, enteredActive,
                   windowMax, interpreter, events>>

\* one set_tensor / invoke / get_tensor round of the interpreter
Invocation(kind, ok, d) == [kind |-> kind, ok |-> ok, dur |-> d]

\* variants: the warm-up loop runs over the iteration count; the timed loop
\* runs once too often
WarmupCount_iterations == iterations
TimedCount_offByOne == iterations + 1

\* line 77: range(self.warmup); line 91: range(self.iterations)
WarmupCount == warmup
TimedCount == iterations

\* lines 76-80: for _ in range(self.warmup)
WarmupLoop ==
    /\ pc = "warmup"
    /\ IF w < WarmupCount
       THEN \E ok \in BOOLEAN, d \in 1..MaxTime, m \in 0..MaxMem :
              /\ calls' = [calls EXCEPT ![idx] = Append(@, Invocation("warmup", ok, d))]
              /\ events' = Append(events, Event(idx, "invoke", interpreter))
              /\ Alloc(m)
              /\ IF ok
                 THEN /\ w' = w + 1
                      /\ pc' = pc
                      /\ status' = status
                 ELSE /\ w' = w
                      /\ pc' = "except"
                      /\ status' = [status EXCEPT ![idx] = "invoke_error"]
       ELSE /\ pc' = "start"
            /\ UNCHANGED <<w, calls, status, tracerVars, events>>
    /\ UNCHANGED <<pipeVars, fsVars, argVars, models, idx, results, shapeVars, interpreter,
                   inference_times, start_memory, peak_memory, outVars, timesOf,
                   loads, started, enteredActive, windowMax>>

\* tracemalloc.start(): begins tracing from an empty trace; no effect when the
\* module is already tracing
TracemallocStart ==
    IF tracing
    THEN UNCHANGED tracerVars
    ELSE /\ tracing' = TRUE
         /\ cur' = 0
         /\ peak' = 0

\* variant: the tracker is left running
TracemallocStop_skipped == UNCHANGED tracerVars

\* tracemalloc.stop(): ends tracing and clears the traces
TracemallocStop ==
    /\ tracing' = FALSE
    /\ cur' = 0
    /\ peak' = 0

\* lines 86-90: open the memory window
StartWindow ==
    /\ pc = "start"
    /\ TracemallocStart
    /\ start_memory' = cur'
    /\ inference_times' = <<>>
    /\ started' = started \cup {idx}
    /\ enteredActive' = IF tracing THEN enteredActive \cup {idx} ELSE enteredActive
    /\ windowMax' = cur'
    /\ pc' = "timed"
    /\ UNCHANGED <<pipeVars, fsVars, argVars, models, idx, results, shapeVars, interpreter, w,
                   peak_memory, outVars, status, timesOf, calls, loads, events>>

\* lines 91-103: for i in range(self.iterations)
TimedLoop ==
    /\ pc = "timed"
    /\ IF Len(inference_times) < TimedCount
       THEN \E ok \in BOOLEAN, d \in 1..MaxTime, m \in 0..MaxMem :
              /\ calls' = [calls EXCEPT ![idx] = Append(@, Invocation("timed", ok, d))]
              /\ events' = Append(events, Event(idx, "invoke", interpreter))
              /\ Alloc(m)
              /\ IF ok
                 THEN /\ inference_times' = Append(inference_times, d)
                      /\ pc' = pc
                      /\ status' = status
                 ELSE /\ inference_times' = inference_times
                      /\ pc' = "except"
                      /\ status' = [status EXCEPT ![idx] = "invoke_error"]
              /\ windowMax' = Max(windowMax, cur')
       ELSE /\ pc' = "peak"
            /\ UNCHANGED <<inference_times, calls, status, tracerVars, windowMax,
                           events>>
    /\ UNCHANGED <<pipeVars, fsVars, argVars, models, idx, results, shapeVars, interpreter, w,
                   start_memory, peak_memory, outVars, timesOf, loads, started,
                   enteredActive>>

\* variant: the current level is read instead of the peak
PeakDelta_current(traced, start) == traced[1] - start

\* line 106: get_traced_memory()[1] - start_memory
PeakDelta(traced, start) == traced[2] - start

\* lines 106-107: close the memory window
StopWindow ==
    /\ pc = "peak"
    /\ peak_memory' = PeakDelta(GetTracedMemory, start_memory)
    /\ TracemallocStop
    /\ pc' = "stats"
    /\ UNCHANGED <<pipeVars, fsVars, argVars, models, idx, results, shapeVars, interpreter, w,
                   inference_times, start_memory, outVars, histVars>>

\* variant: the record keeps the delta in bytes
ResultOf_bytes(path, times, mem) ==
    [model_name |-> Basename(path),
     avg_time |-> FMean(AsFloats(times)),
     std_time_sq |-> FVar(AsFloats(times)),
     min_time |-> SeqMin(times),
     max_time |-> SeqMax(times),
     peak_memory |-> [num |-> mem, den |-> 1]]

\* lines 110-113 and 123-130: the statistics and the returned dict (std_time
\* is kept as the value np.std takes the square root of; the memory in MB as
\* a fraction)
ResultOf(path, times, mem) ==
    [model_name |-> Basename(path),
     avg_time |-> FMean(AsFloats(times)),
     std_time_sq |-> FVar(AsFloats(times)),
     min_time |-> SeqMin(times),
     max_time |-> SeqMax(times),
     peak_memory |-> [num |-> mem, den |-> BytesPerMB]]

\* lines 110-130 and 145: np.min raises ValueError on an empty sequence
\* (np.mean and np.std only warn); otherwise the result is returned and
\* appended to results
Stats ==
    /\ pc = "stats"
    /\ IF inference_times = <<>>
       THEN /\ pc' = "except"
            /\ status' = [status EXCEPT ![idx] = "stats_error"]
            /\ UNCHANGED <<results, idx, timesOf>>
       ELSE /\ results' = Append(results, ResultOf(models[idx], inference_times, peak_memory))
            /\ status' = [status EXCEPT ![idx] = "ok"]
            /\ timesOf' = [timesOf EXCEPT ![idx] = inference_times]
            /\ idx' = idx + 1
            /\ pc' = "for"
    /\ UNCHANGED <<pipeVars, fsVars, argVars, models, localVars, tracerVars, outVars, calls,
                   loads, started, enteredActive, windowMax, events>>

\* variant: the handler prints no error line
ErrorLine_none(name, cause) == {}

\* line 147: the error line carries the basename and str(e)
ErrorLine(name, cause) == {[name |-> name, cause |-> cause]}

\* lines 146-147: the handler prints the error line
Except ==
    /\ pc = "except"
    /\ errorsPrinted' = errorsPrinted \cup ErrorLine(Basename(models[idx]), status[idx])
    /\ pc' = "print_exc"
    /\ UNCHANGED <<pipeVars, fsVars, argVars, models, idx, results, localVars, tracerVars,
                   printed, tableRows, tableMem, histVars>>

\* line 148: the handler evaluates the name traceback, which is a NameError
\* unless the module binds it; the NameError leaves run_all_benchmarks
PrintExc ==
    /\ pc = "print_exc"
    /\ IF "traceback" \in ModuleGlobals
       THEN /\ idx' = idx + 1
            /\ pc' = "for"
       ELSE /\ idx' = idx
            /\ pc' = "run_raised"
    /\ UNCHANGED <<pipeVars, fsVars, argVars, models, results, localVars, tracerVars,
                   outVars, histVars>>

\* line 157: the format spec .2f prints a fraction q >= 0 rounded to
\* hundredths (ties to even); the result is the number of hundredths
Format2(q) ==
    LET n == q.num * 100
        fl == n \div q.den
        rem == n % q.den
    IN  IF 2 * rem > q.den THEN fl + 1
        ELSE IF 2 * rem < q.den THEN fl
        ELSE IF fl % 2 = 0 THEN fl ELSE fl + 1

\* lines 151-159: the summary table and the return
Summary ==
    /\ pc = "summary"
    /\ IF results # <<>>
       THEN /\ printed' = printed \cup {"summary"}
            /\ tableRows' = [k \in 1..Len(results) |-> results[k].model_name]
            /\ tableMem' = [k \in 1..Len(results) |-> Format2(results[k].peak_memory)]
       ELSE UNCHANGED <<printed, tableRows, tableMem>>
    /\ pc' = "returned"
    /\ UNCHANGED <<pipeVars, fsVars, argVars, models, idx, results, localVars, tracerVars,
                   errorsPrinted, histVars>>

\* line 184
Complete ==
    /\ pc = "returned"
    /\ printed' = printed \cup {"complete"}
    /\ pc' = "done"
    /\ UNCHANGED <<pipeVars, fsVars, argVars, models, idx, results, localVars, tracerVars,
                   tableRows, tableMem, errorsPrinted, histVars>>

Next ==
    \/ MainCheckDir
    \/ Construct
    \/ RunStart
    \/ ForModel
    \/ Load
    \/ Synth
    \/ WarmupLoop
    \/ StartWindow
    \/ TimedLoop
    \/ StopWindow
    \/ Stats
    \/ Except
    \/ PrintExc
    \/ Summary
    \/ Complete

Spec == Init /\ [][Next]_vars

\* ---- positions ----
BenchPcs == {"load", "synth", "warmup", "start", "timed", "peak", "stats"}
Terminated == pc \in {"exit", "done", "ctor_raised", "run_raised"}

TypeOK ==
    /\ interpreter \in 0..MaxEntries
    /\ \A i \in 1..Len(events) : events[i].interp \in 1..MaxEntries
    /\ dirKind \in DirKinds
    /\ iterations \in 0..MaxIter
    /\ warmup \in 0..MaxWarmup
    /\ pc \in {"main", "ctor", "run", "for", "except", "print_exc", "summary", "returned",
               "exit", "done", "ctor_raised", "run_raised"} \cup BenchPcs
    /\ tracing \in BOOLEAN
    /\ cur \in 0..MaxMem
    /\ peak \in cur..MaxMem
    /\ Len(inference_times) <= iterations

\* ---- derived views used by the properties ----
ModelIdx == 1..Len(models)
OkModels == {k \in ModelIdx : status[k] = "ok"}
FailedModels ==
    {k \in ModelIdx :
       status[k] \in {"load_error", "shape_error", "invoke_error", "stats_error"}}
RunEnded == pc \in {"returned", "done", "run_raised"}
ResultNames == [k \in 1..Len(results) |-> results[k].model_name]

\* names of the models that benchmarked without failure, in loop order
RECURSIVE OkNamesFrom(_)
OkNamesFrom(k) ==
    IF k > Len(models) THEN <<>>
    ELSE IF status[k] = "ok"
         THEN <<Basename(models[k])>> \o OkNamesFrom(k + 1)
         ELSE OkNamesFrom(k + 1)

RECURSIVE CallsOfOk(_)
CallsOfOk(k) ==
    IF k > Len(models) THEN 0
    ELSE (IF status[k] = "ok" THEN Len(calls[k]) ELSE 0) + CallsOfOk(k + 1)

\* C1: a failing artifact never aborts the batch: no exception escapes
\* run_all_benchmarks, and once the loop is over every discovered artifact has
\* been attempted and the results hold exactly the artifacts that did not fail.
C1_FailuresIsolated ==
    /\ pc # "run_raised"
    /\ pc \in {"summary", "returned", "done"} =>
         /\ \A k \in ModelIdx : status[k] # "pending"
         /\ ResultNames = OkNamesFrom(1)

\* C2: whenever a benchmark_model call that started the tracker has exited,
\* normally or by exception, the process-wide tracker is not active.
C2_TrackerReleasedOnExit ==
    (pc \notin BenchPcs /\ started # {}) => ~tracing

\* C3: a benchmark_model call that completes has recorded exactly
\* `iterations` timings, the durations of its timed invocations in invocation
\* order; warm-up invocations contribute no entry (also while the call runs).
C3_ExactlyNTimings ==
    /\ \A k \in OkModels :
         /\ Len(timesOf[k]) = iterations
         /\ timesOf[k] = Durations(calls[k], "timed")
    /\ pc \in {"timed", "peak", "stats"} =>
         inference_times = Durations(calls[idx], "timed")

C3_Witness ==
    \E k \in OkModels :
      /\ warmup = 0
      /\ iterations >= 2
      /\ timesOf[k][1] < timesOf[k][2]

\* C4: every artifact that benchmarks without failure was invoked exactly
\* `warmup` times for warm-up and then exactly `iterations` times timed, all
\* warm-ups first; K such artifacts account for K * (warmup + iterations)
\* invocations and K result entries.
C4_WarmupThenTimed ==
    /\ \A k \in OkModels :
         /\ Len(calls[k]) = warmup + iterations
         /\ \A j \in 1..Len(calls[k]) :
              /\ calls[k][j].ok
              /\ calls[k][j].kind = IF j <= warmup THEN "warmup" ELSE "timed"
    /\ CallsOfOk(1) = Cardinality(OkModels) * (warmup + iterations)
    /\ Len(results) = Cardinality(OkModels)

C4_Witness ==
    /\ pc = "done"
    /\ Cardinality(OkModels) = 2
    /\ warmup >= 1
    /\ iterations >= 2
    /\ CallsOfOk(1) = 2 * (warmup + iterations)

\* C5: during the warm-up phase of every artifact after the first the tracker
\* is not active, and a tracker active during any warm-up phase was not
\* started by the harness.
C5_NoTrackerInWarmup ==
    pc = "warmup" =>
      /\ idx > 1 => ~tracing
      /\ tracing => started = {}

C5_Witness ==
    /\ pc = "warmup"
    /\ idx = 2
    /\ w >= 1
    /\ 1 \in started
    /\ ~tracing

\* C6: with iterations = 0, once the run is over every discovered artifact
\* (none of which failed to load or to invoke) has reached the aggregation
\* and raised there.
C6_EveryArtifactRaisesEmptyInput ==
    (/\ iterations = 0
     /\ Terminated
     /\ \A k \in ModelIdx :
          status[k] \notin {"load_error", "shape_error", "invoke_error"})
    => \A k \in ModelIdx : status[k] = "stats_error"

\* C7: the summary table is printed only after every discovered artifact has
\* been attempted, and once the run is over it lists exactly the artifacts
\* that benchmarked successfully, one row each, and no failed artifact.
C7_SummaryRows ==
    /\ "summary" \in printed => \A k \in ModelIdx : status[k] # "pending"
    /\ RunEnded =>
         /\ tableRows = OkNamesFrom(1)
         /\ \A k \in FailedModels, j \in 1..Len(tableRows) :
              tableRows[j] # Basename(models[k])

\* C8: a directory without any .tflite entry gives an empty result collection
\* and the "no models found" notice: nothing raises, no interpreter is
\* created, nothing is invoked, no summary table is printed.
NoMatchingEntry == dirKind = "dir" /\ \A k \in 1..Len(entries) : entries[k].ext # "tflite"

C8_NoArtifactsNotice ==
    NoMatchingEntry =>
      /\ pc \in {"main", "ctor", "run", "returned", "done"}
      /\ results = <<>>
      /\ \A k \in DOMAIN loads : loads[k] = 0
      /\ \A k \in DOMAIN calls : calls[k] = <<>>
      /\ "summary" \notin printed
      /\ tableRows = <<>>
      /\ errorsPrinted = {}
      /\ pc \in {"returned", "done"} => "no_models" \in printed

C8_Witness ==
    /\ NoMatchingEntry
    /\ Len(entries) >= 1
    /\ pc = "done"
    /\ "no_models" \in printed
    /\ results = <<>>

\* C9: when the directory does not exist main stops at its check with the
\* diagnostic: the directory is never listed, no interpreter is created,
\* nothing is invoked, run_all_benchmarks and the completion message are
\* never reached.
C9_MissingDirAborts ==
    dirKind = "missing" =>
      /\ pc \in {"main", "exit"}
      /\ models = <<>>
      /\ loads = <<>>
      /\ calls = <<>>
      /\ printed \subseteq {"dir_not_found"}
      /\ pc = "exit" => "dir_not_found" \in printed

C9_Witness ==
    /\ dirKind = "missing"
    /\ pc = "exit"
    /\ printed = {"dir_not_found"}

\* C10: the peak-memory delta computed at the end of every timed window, and
\* stored in every result, is >= 0, whether or not the tracker was already
\* active when the window opened.
C10_DeltaNonNegative ==
    /\ pc = "stats" => peak_memory >= 0
    /\ \A k \in 1..Len(results) :
         /\ results[k].peak_memory.num >= 0
         /\ results[k].peak_memory.den > 0

C10_Witness ==
    /\ 1 \in enteredActive
    /\ pc = "stats"
    /\ idx = 1
    /\ start_memory > 0
    /\ peak_memory > 0

\* ---- input shapes ----
AllPositive(shape) == \A k \in 1..Len(shape) : shape[k] > 0

\* C11: an artifact whose declared input shape has a non-positive dimension
\* never gets past input synthesis (it is never invoked), it is recorded as
\* failed with a shape error, and that failure does not end the run.
C11_BadShapeRejected ==
    /\ pc \in {"warmup", "start", "timed", "peak", "stats"} => AllPositive(input_shape)
    /\ \A k \in ModelIdx : status[k] = "shape_error" => calls[k] = <<>>
    /\ pc = "run_raised" => status[idx] # "shape_error"
\* ---- the stored memory figure ----
LastResult == results[Len(results)]
JustAppended == pc = "for" /\ idx > 1 /\ status[idx - 1] = "ok"

\* C12 as stated: the value stored in the result record is the delta in
\* bytes (the number peak_memory computed at line 106).
C12_StoredInBytes ==
    JustAppended => LastResult.peak_memory.num = peak_memory * LastResult.peak_memory.den

\* C12 amended: the value stored in the result record is the delta divided
\* by 1024 * 1024 (MB), and the summary table prints the stored value of each
\* row, rounded to two decimals, without converting it again.
C12_StoredInMB ==
    /\ JustAppended =>
         LastResult.peak_memory.num * BytesPerMB = peak_memory * LastResult.peak_memory.den
    /\ "summary" \in printed =>
         /\ Len(tableMem) = Len(results)
         /\ \A k \in 1..Len(results) : tableMem[k] = Format2(results[k].peak_memory)

C12_Witness ==
    /\ "summary" \in printed
    /\ \E k \in 1..Len(results) : results[k].peak_memory.num > 0
\* ---- diagnostics ----
\* C13: once the handler of a failed artifact has printed and the run has
\* moved on (to the next artifact or out of run_all_benchmarks), the error
\* line with that artifact's name and the cause of its failure is on stdout.
C13_FailureDiagnosed ==
    \A k \in FailedModels :
      \/ pc = "except" /\ idx = k
      \/ [name |-> Basename(models[k]), cause |-> status[k]] \in errorsPrinted

C13_Witness ==
    /\ pc = "run_raised"
    /\ idx = 2
    /\ status[2] = "invoke_error"
    /\ [name |-> Basename(models[2]), cause |-> "invoke_error"] \in errorsPrinted
\* ---- input synthesis on its own ----
\* benchmark_model right after loading an artifact that declares any shape of
\* AllShapes: a single model, nothing invoked yet
SynthInit ==
    /\ dirKind = "dir"
    /\ entries = ListingOf(<< <<"tflite", "file">> >>)
    /\ iterations \in 1..MaxIter
    /\ warmup = 0
    /\ pc = "synth"
    /\ models = FindModels(entries)
    /\ idx = 1
    /\ results = <<>>
    /\ input_shape \in AllShapes
    /\ test_input = NoInput
    /\ w = 0
    /\ inference_times = <<>>
    /\ start_memory = 0
    /\ peak_memory = 0
    /\ tracing = FALSE
    /\ cur = 0
    /\ peak = 0
    /\ printed = {"found"}
    /\ tableRows = <<>>
    /\ tableMem = <<>>
    /\ errorsPrinted = {}
    /\ status = <<"pending">>
    /\ timesOf = << <<>> >>
    /\ calls = << <<>> >>
    /\ loads = <<1>>
    /\ started = {}
    /\ enteredActive = {}
    /\ windowMax = 0
    /\ interpreter = NewInterpreter(<<>>)
    /\ events = <<Event(1, "create", interpreter)>>
    /\ PipeIdle

SynthNext == Synth

SynthSpec == SynthInit /\ [][SynthNext]_vars

\* C14: for every declared shape whose dimensions are all positive, of rank 4
\* or of another rank, the synthesized input has exactly the declared shape,
\* dimension by dimension.
C14_ShapeMatches ==
    (pc = "warmup" /\ AllPositive(input_shape)) =>
      /\ Len(test_input.shape) = Len(input_shape)
      /\ \A k \in 1..Len(input_shape) : test_input.shape[k] = input_shape[k]

C14_Witness ==
    /\ pc = "warmup"
    /\ Len(input_shape) = 4
    /\ AllPositive(input_shape)
    /\ test_input.shape = input_shape
\* ---- the statistics on their own ----
\* benchmark_model of a single model right after its timed window, with any
\* non-empty timing sequence up to StatMaxLen over 1..StatMaxTime
TimingSeqs == UNION {[1..n -> 1..StatMaxTime] : n \in 1..StatMaxLen}

StatsInit ==
    /\ dirKind = "dir"
    /\ entries = ListingOf(<< <<"tflite", "file">> >>)
    /\ inference_times \in TimingSeqs
    /\ iterations = Len(inference_times)
    /\ warmup = 0
    /\ pc = "stats"
    /\ models = FindModels(entries)
    /\ idx = 1
    /\ results = <<>>
    /\ input_shape = <<1, 1>>
    /\ test_input = [shape |-> <<1, 1>>, dtype |-> "float32"]
    /\ w = 0
    /\ start_memory = 0
    /\ peak_memory = 0
    /\ tracing = FALSE
    /\ cur = 0
    /\ peak = 0
    /\ printed = {"found"}
    /\ tableRows = <<>>
    /\ tableMem = <<>>
    /\ errorsPrinted = {}
    /\ status = <<"pending">>
    /\ timesOf = << <<>> >>
    /\ calls = <<[k \in 1..Len(inference_times) |->
                    Invocation("timed", TRUE, inference_times[k])]>>
    /\ loads = <<1>>
    /\ started = {1}
    /\ enteredActive = {}
    /\ windowMax = 0
    /\ interpreter = NewInterpreter(<<>>)
    /\ events = <<Event(1, "create", interpreter)>> \o
                [k \in 1..Len(inference_times) |-> Event(1, "invoke", interpreter)]
    /\ PipeIdle

StatsNext == Stats

StatsSpec == StatsInit /\ [][StatsNext]_vars

\* the result record of model k, and whether its timings are all equal
ResultIdx(k) == Cardinality({j \in OkModels : j <= k})
AllEqual(times) == \A i, j \in 1..Len(times) : times[i] = times[j]

Listed == dirKind = "dir" /\ pc \notin {"main", "ctor"}

\* C16: the models found are exactly the regular files directly inside the
\* directory whose name ends with .tflite: every path found names such a file,
\* and every such file is found.
C16_ExactlyMatchingFiles ==
    Listed =>
      /\ \A j \in 1..Len(models) :
           \E k \in 1..Len(entries) :
             /\ models[j] = PathJoin("model_dir", FileName(entries[k].stem, entries[k].ext))
             /\ entries[k].ext = "tflite"
             /\ entries[k].kind = "file"
      /\ \A k \in 1..Len(entries) :
           (entries[k].ext = "tflite" /\ entries[k].kind = "file") =>
             \E j \in 1..Len(models) :
               models[j] = PathJoin("model_dir", FileName(entries[k].stem, entries[k].ext))
\* ---- the memory window ----
\* C17: the tracker is started for an artifact only after that artifact was
\* loaded and all `warmup` warm-up invocations have returned; while the
\* artifact is loading or warming up its window has not been opened.
C17_WindowAfterWarmup ==
    /\ \A k \in started :
         /\ loads[k] = 1
         /\ Len(calls[k]) >= warmup
         /\ \A j \in 1..warmup : calls[k][j].kind = "warmup" /\ calls[k][j].ok
    /\ pc \in {"load", "synth", "warmup"} => idx \notin started

C17_Witness ==
    /\ pc = "timed"
    /\ idx \in started
    /\ warmup >= 1
    /\ Len(calls[idx]) = warmup
    /\ calls[idx][warmup].kind = "warmup"
\* C18: the delta reported for a completed benchmark is the highest traced
\* level seen during its window minus the level at window entry, whatever
\* the state of the tracker when the window opened.
C18_PeakOfWindowOnly ==
    JustAppended =>
      /\ peak_memory = windowMax - start_memory
      /\ LastResult.peak_memory.num = windowMax - start_memory

\* ---- one artifact at a time ----
EventIdx == 1..Len(events)

\* models whose interpreter exists and whose benchmark_model has not ended
InProgress == {k \in ModelIdx : loads[k] >= 1 /\ status[k] = "pending"}

\* C19: artifacts are benchmarked one after another: at most one artifact is
\* in progress, the creations and invocations of one artifact form one
\* unbroken block of the run that begins with the creation of its
\* interpreter, every interpreter is created once, and an interpreter is
\* used by the artifact it was created for and by no other.
C19_OneArtifactAtATime ==
    /\ Cardinality(InProgress) <= 1
    /\ InProgress \subseteq {idx}
    /\ \A k \in ModelIdx : loads[k] <= 1
    /\ \A i, j \in EventIdx :
         i <= j /\ events[i].model = events[j].model =>
           \A m \in i..j : events[m].model = events[i].model
    /\ \A i, j \in EventIdx :
         events[i].interp = events[j].interp =>
           /\ events[i].model = events[j].model
           /\ events[i].op = "create" /\ events[j].op = "create" => i = j
    /\ \A i \in EventIdx :
         events[i].op = "invoke" =>
           \E j \in 1..(i - 1) :
             /\ events[j].op = "create"
             /\ events[j].interp = events[i].interp
             /\ events[j].model = events[i].model
             /\ \A m \in j..i : events[m].model = events[i].model

C19_Witness ==
    /\ Len(models) >= 2
    /\ \E i, j \in EventIdx :
         /\ i < j
         /\ events[i].op = "invoke" /\ events[i].model = 1
         /\ events[j].op = "invoke" /\ events[j].model = 2
         /\ events[i].interp # events[j].interp

\* ---- the pipeline scripts ----
PipelineScripts == {"prepare_mlc_llm", "compile_model_for_android"}

\* shell commands each script hands to run_command
CommandsOf(s) ==
    IF s = "prepare_mlc_llm"
    THEN {"git_clone", "git_pull", "pip_install", "hf_download"}
    ELSE {"compile_script", "cp"}

\* paths the steps test: <build>/mlc-llm, <output>/gemma-2b and
\* <output>/gemma-2b/lib/libgemma-2b.so, which lies inside the second
Paths == {"mlc_llm_dir", "model_dir", "model_lib"}
ExistingSets == {e \in SUBSET Paths : "model_lib" \in e => "model_dir" \in e}

\* the benchmark program is not running
BenchIdle ==
    /\ dirKind = "missing"
    /\ entries = <<>>
    /\ iterations = 0
    /\ warmup = 0
    /\ pc = "idle"
    /\ models = <<>>
    /\ idx = 0
    /\ results = <<>>
    /\ input_shape = <<>>
    /\ test_input = NoInput
    /\ w = 0
    /\ inference_times = <<>>
    /\ start_memory = 0
    /\ peak_memory = 0
    /\ interpreter = NoInterpreter
    /\ tracing = FALSE
    /\ cur = 0
    /\ peak = 0
    /\ printed = {}
    /\ tableRows = <<>>
    /\ tableMem = <<>>
    /\ errorsPrinted = {}
    /\ status = <<>>
    /\ timesOf = <<>>
    /\ calls = <<>>
    /\ loads = <<>>
    /\ started = {}
    /\ enteredActive = {}
    /\ windowMax = 0
    /\ events = <<>>

\* main() of either script right after parse_args, in any environment
PipeInit ==
    /\ BenchIdle
    /\ script \in PipelineScripts
    /\ ppc = IF script = "prepare_mlc_llm" THEN "for" ELSE "compile_model"
    /\ stepIdx = IF script = "prepare_mlc_llm" THEN 1 ELSE 0
    /\ stepLog = <<>>
    /\ ret = NoReturn
    /\ existing \in ExistingSets
    /\ failing \in SUBSET CommandsOf(script)
    /\ buildWritable \in BOOLEAN
    /\ appWritable \in BOOLEAN
    /\ pipePrinted = {}

\* run_command: True iff the command ran and ended with return code 0
run_command(cmd) == cmd \notin failing

\* what a step function did: raised, or returned value, leaving the paths ex
Outcome(raised, value, ex) == [raised |-> raised, value |-> value, existing |-> ex]
Raises == {Outcome(TRUE, FALSE, existing)}
Returns(value) == {Outcome(FALSE, value, existing)}

\* prepare_mlc_llm.py lines 46-65: os.makedirs, then git clone when the
\* repository is absent (False when the clone fails), else git pull, whose
\* result is dropped
clone_repositories ==
    IF ~buildWritable
    THEN Raises
    ELSE IF "mlc_llm_dir" \notin existing
         THEN IF run_command("git_clone")
              THEN {Outcome(FALSE, TRUE, existing \cup {"mlc_llm_dir"})}
              ELSE Returns(FALSE)
         ELSE Returns(TRUE)

\* prepare_mlc_llm.py lines 67-80
install_dependencies == Returns(run_command("pip_install"))

\* prepare_mlc_llm.py lines 82-93
download_model ==
    IF ~buildWritable THEN Raises ELSE Returns(run_command("hf_download"))

\* prepare_mlc_llm.py lines 95-154: creates directories and files, returns True
setup_android_environment ==
    IF ~appWritable THEN Raises ELSE Returns(TRUE)

\* prepare_mlc_llm.py lines 156-179
print_next_steps == Returns(TRUE)

\* compile_model_for_android.py lines 40-103: False without the MLC-LLM
\* directory; else writes the script and returns what run_command returns; a
\* run that succeeded may have written the model directory and library
compile_model ==
    IF "mlc_llm_dir" \notin existing
    THEN Returns(FALSE)
    ELSE IF ~buildWritable
         THEN Raises
         ELSE IF run_command("compile_script")
              THEN {Outcome(FALSE, TRUE, e) : e \in {x \in ExistingSets : existing \subseteq x}}
              ELSE Returns(FALSE)

\* compile_model_for_android.py lines 105-117
check_model == Returns("model_lib" \in existing)

\* compile_model_for_android.py lines 119-156: the results of the cp commands
\* are dropped
copy_to_app ==
    IF ~appWritable
    THEN Raises
    ELSE IF "model_dir" \notin existing THEN Returns(FALSE) ELSE Returns(TRUE)

\* prepare_mlc_llm.py lines 194-200
steps == <<"clone_repositories", "install_dependencies", "download_model",
           "setup_android_environment", "print_next_steps">>

\* compile_model_for_android.py lines 170-180, in textual order
CompileSteps == <<"compile_model", "check_model", "copy_to_app">>

StepsOf(s) == IF s = "prepare_mlc_llm" THEN steps ELSE CompileSteps

\* step_fn(args)
StepFn(name) ==
    CASE name = "clone_repositories" -> clone_repositories
      [] name = "install_dependencies" -> install_dependencies
      [] name = "download_model" -> download_model
      [] name = "setup_android_environment" -> setup_android_environment
      [] name = "print_next_steps" -> print_next_steps
      [] name = "compile_model" -> compile_model
      [] name = "check_model" -> check_model
      [] name = "copy_to_app" -> copy_to_app

Called(name, o) == [step |-> name, raised |-> o.raised, value |-> o.value]

\* variant: the returned value is not looked at
StepFailed_never(value) == FALSE

\* `if not step_fn(args)`, `if not compile_model(args)`, ...
StepFailed(value) == ~value

\* prepare_mlc_llm.py lines 202-208: one turn of the for loop, or the code
\* after it
PrepareFor ==
    /\ script = "prepare_mlc_llm"
    /\ ppc = "for"
    /\ IF stepIdx <= Len(steps)
       THEN \E o \in StepFn(steps[stepIdx]) :
              /\ stepLog' = Append(stepLog, Called(steps[stepIdx], o))
              /\ existing' = o.existing
              /\ IF o.raised
                 THEN /\ ppc' = "raised"
                      /\ UNCHANGED <<stepIdx, ret, pipePrinted>>
                 ELSE IF StepFailed(o.value)
                      THEN /\ pipePrinted' = pipePrinted \cup {"step_failed"}
                           /\ ret' = 1
                           /\ ppc' = "returned"
                           /\ stepIdx' = stepIdx
                      ELSE /\ stepIdx' = stepIdx + 1
                           /\ UNCHANGED <<ppc, ret, pipePrinted>>
       ELSE /\ pipePrinted' = pipePrinted \cup {"all_completed"}
            /\ ret' = 0
            /\ ppc' = "returned"
            /\ UNCHANGED <<stepIdx, stepLog, existing>>
    /\ UNCHANGED <<script, pipeEnv, benchVars>>

\* one `if not <step>(args): print(...); return 1` of
\* compile_model_for_android.main; after the last one, lines 182-183
CompileIf(name, next) ==
    /\ \E o \in StepFn(name) :
         /\ stepLog' = Append(stepLog, Called(name, o))
         /\ existing' = o.existing
         /\ IF o.raised
            THEN /\ ppc' = "raised"
                 /\ UNCHANGED <<ret, pipePrinted>>
            ELSE IF StepFailed(o.value)
                 THEN /\ pipePrinted' = pipePrinted \cup {"step_failed"}
                      /\ ret' = 1
                      /\ ppc' = "returned"
                 ELSE IF next = "return"
                      THEN /\ pipePrinted' = pipePrinted \cup {"all_completed"}
                           /\ ret' = 0
                           /\ ppc' = "returned"
                      ELSE /\ ppc' = next
                           /\ UNCHANGED <<ret, pipePrinted>>
    /\ UNCHANGED <<script, stepIdx, pipeEnv, benchVars>>

\* compile_model_for_android.py lines 170-172
CompileModel ==
    /\ script = "compile_model_for_android"
    /\ ppc = "compile_model"
    /\ CompileIf("compile_model", "check_model")

\* compile_model_for_android.py lines 174-176
CheckModel ==
    /\ script = "compile_model_for_android"
    /\ ppc = "check_model"
    /\ CompileIf("check_model", "copy_to_app")

\* compile_model_for_android.py lines 178-183
CopyToApp ==
    /\ script = "compile_model_for_android"
    /\ ppc = "copy_to_app"
    /\ CompileIf("copy_to_app", "return")

PipeNext ==
    \/ PrepareFor
    \/ CompileModel
    \/ CheckModel
    \/ CopyToApp

PipeSpec == PipeInit /\ [][PipeNext]_vars

\* C20: in both pipeline scripts the steps called so far are the first steps
\* of the script's list, in order; every step before the last one called
\* returned True; when the last one called returned False, main has returned
\* 1; and main has returned 0 only after all steps were called and returned
\* True.
C20_StepsInOrderUntilFailure ==
    script \in PipelineScripts =>
      LET S == StepsOf(script)
          n == Len(stepLog)
      IN  /\ n <= Len(S)
          /\ \A i \in 1..n : stepLog[i].step = S[i]
          /\ \A i \in 1..(n - 1) : ~stepLog[i].raised /\ stepLog[i].value
          /\ (n >= 1 /\ ~stepLog[n].raised /\ ~stepLog[n].value) =>
               (ppc = "returned" /\ ret = 1)
          /\ ret = 0 =>
               /\ n = Len(S)
               /\ \A i \in 1..n : ~stepLog[i].raised /\ stepLog[i].value

C20_Witness ==
    /\ script = "prepare_mlc_llm"
    /\ ppc = "returned"
    /\ ret = 1
    /\ Len(stepLog) = 3
    /\ stepLog[3].step = "download_model"
    /\ ~stepLog[3].value
    /\ "step_failed" \in pipePrinted
====
